---- MODULE Spec2Model ----
(***************************************************************************)
(* The conversation state of src/src/App.tsx: the transcript (messages),   *)
(* the pending input (input, selectedImage), the isLoading flag, and the   *)
(* asynchronous send pipeline of handleSend with its response stream.      *)
(*                                                                         *)
(* Text is a sequence of characters.  An optional value (undefined / null  *)
(* in the source) is a sequence of length 0 (absent) or 1 (present).       *)
(***************************************************************************)
EXTENDS Integers, Sequences, FiniteSets

VARIABLES
    messages,       \* useState<Message[]>, line 29
    input,          \* useState(''), line 37
    isLoading,      \* useState(false), line 38
    selectedImage,  \* useState<string | null>(null), line 39
    apiKey,         \* process.env.GEMINI_API_KEY, line 81: present or not
    clock,          \* the value Date.now() returns
    sends,          \* the handleSend calls suspended at an await (their locals)
    events,         \* user events, clock ticks and chunks so far
    lastOp          \* the handler or continuation that ran last

vars == <<messages, input, isLoading, selectedImage, apiKey, clock, sends, events, lastOp>>

\* ------------------------------------------------------------------ bounds
MaxEvents == 6      \* user events, clock ticks and delivered chunks in one behaviour
StartTime == 9      \* Date.now() when the component mounts

\* ------------------------------------------------------- optional values
None == <<>>
Some(x) == <<x>>

\* ------------------------------------------------------------------ text
Space == " "
InputSet == { <<>>, <<Space>>, <<Space, "h", Space>> }
ImageSet == { <<"d", ",", "A">> }

GreetingText == <<"Hello! I'm your Gemini-powered assistant. How can I help you today?">>
AnalyzeText == <<"Analyze this image">>
ErrorText == <<"I'm sorry, I encountered an error. Please try again later.">>
ClearedText == <<"Chat cleared. How else can I help you?">>

RECURSIVE TrimStart(_)
TrimStart(s) ==
    IF s # <<>> /\ Head(s) = Space THEN TrimStart(Tail(s)) ELSE s

RECURSIVE TrimEnd(_)
TrimEnd(s) ==
    IF s # <<>> /\ s[Len(s)] = Space THEN TrimEnd(SubSeq(s, 1, Len(s) - 1)) ELSE s

\* String.prototype.trim
Trim(s) == TrimEnd(TrimStart(s))

\* Number.prototype.toString: the decimal digits
RECURSIVE ToString(_)
ToString(n) ==
    IF n < 10 THEN <<n>> ELSE ToString(n \div 10) \o <<n % 10>>

\* ---------------------------------------------------------------- messages
InitialId == <<1>>

Message(id, role, content, timestamp, image) ==
    [id |-> id, role |-> role, content |-> content, timestamp |-> timestamp,
     image |-> image, sources |-> None]

\* ------------------------------------------------------------ stream chunks
Web(u, t) == Some([uri |-> u, title |-> t])
NoWeb == None

\* A chunk: text (optional) and groundingChunks (optional list of entries,
\* each with an optional web record).
Chunk(t, g) == [text |-> t, groundingChunks |-> g]

ChunkSet ==
    { Chunk(Some(<<"a">>), None),
      Chunk(Some(<<"b">>), Some(<<Web("u1", "t1"), NoWeb, Web("u1", "t2")>>)),
      Chunk(None, Some(<<Web("u1", "t2"), Web("u2", "t1")>>)) }

\* --------------------------------------------------------------- handleSend
\* the early return without the isLoading test
SendIgnoredNoLoading(in, img, loading) ==
    Trim(in) = <<>> /\ img = None

\* the early return testing input instead of input.trim()
SendIgnoredNoTrim(in, img, loading) ==
    (in = <<>> /\ img = None) \/ loading

\* line 65: the early return of handleSend
SendIgnored(in, img, loading) ==
    (Trim(in) = <<>> /\ img = None) \/ loading

\* the user message built from the untrimmed input
UserContentUntrimmed(in, img) ==
    IF in # <<>> THEN in
    ELSE IF img # None THEN AnalyzeText ELSE <<>>

\* line 70: input.trim() || (selectedImage ? "Analyze this image" : "")
UserContent(in, img) ==
    IF Trim(in) # <<>> THEN Trim(in)
    ELSE IF img # None THEN AnalyzeText ELSE <<>>

\* setInput('') missing: the input is left as typed
InputAfterSendKept == input

\* line 76: setInput('')
InputAfterSend == <<>>

\* line 77: setSelectedImage(null)
ImageAfterSend == None

\* lines 67-73
UserMessage(in, img, now) ==
    Message(ToString(now), "user", UserContent(in, img), now, img)

\* lines 107-112
Placeholder(botMessageId, now) ==
    Message(botMessageId, "bot", <<>>, now, None)

\* the placeholder left out of the synchronous part of handleSend
AcceptedMessagesNoPlaceholder(prev, userMessage, placeholder) ==
    Append(prev, userMessage)

\* lines 75 and 105-113: both setMessages calls run before the first await
AcceptedMessages(prev, userMessage, placeholder) ==
    Append(Append(prev, userMessage), placeholder)

\* the key test of lines 82-84 missing
SessionCreatedNoKeyTest(key, created) ==
    created

\* lines 81-102: line 104 is reached when the key is set and neither
\* new GoogleGenAI nor ai.chats.create throws
SessionCreated(key, created) ==
    key /\ created

\* setIsLoading(false) missing: isLoading is left as it was
FinallySkipped(loading) ==
    loading

\* lines 165-167: isLoading after the finally block
Finally(loading) ==
    FALSE

\* the catch block putting the error message in the place of the last message
CatchMessagesReplacing(prev, now) ==
    [prev EXCEPT ![Len(prev)] = Message(ToString(now), "bot", ErrorText, now, None)]

\* the catch block putting the error message in front of the transcript
CatchMessagesPrepending(prev, now) ==
    << Message(ToString(now), "bot", ErrorText, now, None) >> \o prev

\* lines 156-164: the catch block's state update
CatchMessages(prev, now) ==
    Append(prev, Message(ToString(now), "bot", ErrorText, now, None))

\* fullResponse = c.text || '' (the chunk taken as cumulative)
AppendTextReplacing(fullResponse, c) ==
    IF c.text = None THEN <<>> ELSE c.text[1]

\* line 135: fullResponse += c.text || ''
AppendText(fullResponse, c) ==
    fullResponse \o (IF c.text = None THEN <<>> ELSE c.text[1])

\* lines 140-142: filter(chunk => chunk.web).map(...)
RECURSIVE NewSources(_)
NewSources(g) ==
    IF g = <<>> THEN <<>>
    ELSE (IF Head(g) = None THEN <<>> ELSE <<Head(g)[1]>>) \o NewSources(Tail(g))

\* Array.prototype.findIndex(t => t.uri === uri); 0 stands for -1
FindIndex(a, uri) ==
    IF \E i \in 1..Len(a) : a[i].uri = uri
    THEN CHOOSE i \in 1..Len(a) :
            a[i].uri = uri /\ \A j \in 1..(i - 1) : a[j].uri # uri
    ELSE 0

RECURSIVE KeepFirst(_, _)
KeepFirst(a, i) ==
    IF i > Len(a) THEN <<>>
    ELSE (IF FindIndex(a, a[i].uri) = i THEN <<a[i]>> ELSE <<>>) \o KeepFirst(a, i + 1)

\* the filter of line 145 missing
UniqueMissing(a) == a

\* line 145: .filter((v, i, a) => a.findIndex(t => t.uri === v.uri) === i)
Unique(a) == KeepFirst(a, 1)

\* lines 138-146
MergeSources(sources, c) ==
    IF c.groundingChunks = None THEN sources
    ELSE Unique(sources \o NewSources(c.groundingChunks[1]))

\* lines 148-152: the update-by-id of the placeholder
UpdateById(prev, botMessageId, fullResponse, sources) ==
    [i \in DOMAIN prev |->
        IF prev[i].id = botMessageId
        THEN [prev[i] EXCEPT !.content = fullResponse,
                             !.sources = IF Len(sources) > 0 THEN Some(sources) ELSE None]
        ELSE prev[i]]

\* clearChat leaving an empty transcript
ClearedMessagesEmpty(now) ==
    <<>>

\* clearChat appending the greeting to the transcript
ClearedMessagesAppending(now) ==
    Append(messages, Message(ToString(now), "bot", ClearedText, now, None))

\* lines 171-178
ClearedMessages(now) ==
    << Message(ToString(now), "bot", ClearedText, now, None) >>

\* String.prototype.split(','): the pieces between the commas
RECURSIVE Split(_, _)
Split(s, piece) ==
    IF s = <<>> THEN <<piece>>
    ELSE IF Head(s) = "," THEN <<piece>> \o Split(Tail(s), <<>>)
    ELSE Split(Tail(s), Append(piece, Head(s)))

\* image.split(',')[1]: undefined when the string has no comma
ImageData(image) ==
    LET pieces == Split(image, <<>>)
    IN  IF Len(pieces) >= 2 THEN Some(pieces[2]) ELSE None

\* lines 89-92 and 115-124: the image part, if any, then the text part
Parts(msg) ==
    (IF msg.image # None
     THEN << [kind |-> "inlineData", data |-> ImageData(msg.image[1]),
              mimeType |-> "image/jpeg"] >>
     ELSE <<>>)
    \o << [kind |-> "text", text |-> msg.content] >>

\* line 88
RoleLabel(role) ==
    IF role = "bot" THEN "model" ELSE "user"

\* lines 87-93: messages.map(...)
History(msgs) ==
    [i \in DOMAIN msgs |-> [role |-> RoleLabel(msgs[i].role), parts |-> Parts(msgs[i])]]

\* the history taken from the transcript with this turn's message appended
HistoryWithCurrent(prev, userMessage) ==
    History(Append(prev, userMessage))

\* lines 87-97: the history handed to ai.chats.create, from the transcript
\* handleSend was called with
HistoryOf(prev, userMessage) ==
    History(prev)

\* The locals of one handleSend call that is suspended at an await: phase
\* is the await ("opening": line 126, "streaming": line 133).  chunks,
\* baseLen and cleared record what the stream delivered so far, the
\* transcript length at acceptance and whether clearChat ran since;
\* history and messageParts are what chats.create and sendMessageStream got.
SendRecord(botMessageId, userMessage, history, baseLen) ==
    [phase |-> "opening", botMessageId |-> botMessageId, userMessage |-> userMessage,
     history |-> history, messageParts |-> Parts(userMessage),
     fullResponse |-> <<>>, sources |-> <<>>, chunks |-> <<>>,
     baseLen |-> baseLen, cleared |-> FALSE]

\* the suspended calls without the k-th, which returned
Returned(ss, k) ==
    SubSeq(ss, 1, k - 1) \o SubSeq(ss, k + 1, Len(ss))

\* clearChat dropping the suspended calls
SuspendedAfterClearDropped(ss) ==
    <<>>

\* lines 170-179: clearChat touches no local of a suspended handleSend call
\* (cleared only records that it ran)
SuspendedAfterClear(ss) ==
    [k \in DOMAIN ss |-> [ss[k] EXCEPT !.cleared = TRUE]]

\* ------------------------------------------------------------------ Init
Init ==
    /\ messages = << Message(InitialId, "bot", GreetingText, StartTime, None) >>
    /\ input = <<>>
    /\ isLoading = FALSE
    /\ selectedImage = None
    /\ apiKey \in BOOLEAN
    /\ clock = StartTime
    /\ sends = <<>>
    /\ events = 0
    /\ lastOp = "mount"

\* ---------------------------------------------------------------- actions
\* line 339: onChange of the textarea
SetInput ==
    \E v \in InputSet :
        /\ events < MaxEvents
        /\ events' = events + 1
        /\ input' = v
        /\ lastOp' = "edit"
        /\ UNCHANGED <<messages, isLoading, selectedImage, apiKey, clock, sends>>

\* lines 53-62
HandleImageSelect ==
    \E img \in ImageSet :
        /\ events < MaxEvents
        /\ events' = events + 1
        /\ selectedImage' = Some(img)
        /\ lastOp' = "edit"
        /\ UNCHANGED <<messages, input, isLoading, apiKey, clock, sends>>

\* line 312
RemoveImage ==
    /\ selectedImage # None
    /\ events < MaxEvents
    /\ events' = events + 1
    /\ selectedImage' = None
    /\ lastOp' = "edit"
    /\ UNCHANGED <<messages, input, isLoading, apiKey, clock, sends>>

\* the millisecond clock advances
Tick ==
    /\ events < MaxEvents
    /\ events' = events + 1
    /\ clock' = clock + 1
    /\ lastOp' = "tick"
    /\ UNCHANGED <<messages, input, isLoading, selectedImage, apiKey, sends>>

\* lines 64-128 and, when a step before line 126 throws, lines 154-167: the
\* part of handleSend that runs before its first await.  d is the time that
\* passes between line 68 and line 104 (or line 159); created tells whether
\* new GoogleGenAI and ai.chats.create return or throw.
HandleSend ==
    IF SendIgnored(input, selectedImage, isLoading)
    THEN /\ lastOp' = "sendIgnored"
         /\ UNCHANGED <<messages, input, isLoading, selectedImage, apiKey, clock,
                        sends, events>>
    ELSE /\ events < MaxEvents
         /\ \E d \in 0..1, created \in BOOLEAN :
              LET userMessage == UserMessage(input, selectedImage, clock)
                  later == clock + d
                  botMessageId == ToString(later + 1)
              IN  /\ events + 1 + d <= MaxEvents
                  /\ input' = InputAfterSend
                  /\ selectedImage' = ImageAfterSend
                  /\ clock' = later
                  /\ events' = events + 1 + d
                  /\ UNCHANGED apiKey
                  /\ IF SessionCreated(apiKey, created)
                     THEN /\ messages' = AcceptedMessages(messages, userMessage,
                                                          Placeholder(botMessageId, later))
                          /\ isLoading' = TRUE
                          /\ sends' = Append(sends, SendRecord(botMessageId, userMessage,
                                                HistoryOf(messages, userMessage),
                                                Len(messages)))
                          /\ lastOp' = "sendAccepted"
                     ELSE /\ messages' = CatchMessages(Append(messages, userMessage), later)
                          /\ isLoading' = Finally(TRUE)
                          /\ sends' = sends
                          /\ lastOp' = "sendFailed"

\* line 126: await chat.sendMessageStream resolves
StreamOpen(k) ==
    /\ sends[k].phase = "opening"
    /\ sends' = [sends EXCEPT ![k].phase = "streaming"]
    /\ lastOp' = "streamOpen"
    /\ UNCHANGED <<messages, input, isLoading, selectedImage, apiKey, clock, events>>

\* lines 133-153: one iteration of the for await loop
StreamChunk(k) ==
    /\ sends[k].phase = "streaming"
    /\ events < MaxEvents
    /\ events' = events + 1
    /\ \E c \in ChunkSet :
         LET fullResponse == AppendText(sends[k].fullResponse, c)
             sources == MergeSources(sends[k].sources, c)
         IN  /\ sends' = [sends EXCEPT ![k].fullResponse = fullResponse,
                                       ![k].sources = sources,
                                       ![k].chunks = Append(@, c)]
             /\ messages' = UpdateById(messages, sends[k].botMessageId,
                                       fullResponse, sources)
    /\ lastOp' = "streamChunk"
    /\ UNCHANGED <<input, isLoading, selectedImage, apiKey, clock>>

\* lines 153, 165-167: the stream is exhausted, finally runs
StreamEnd(k) ==
    /\ sends[k].phase = "streaming"
    /\ sends' = Returned(sends, k)
    /\ isLoading' = Finally(isLoading)
    /\ lastOp' = "streamEnd"
    /\ UNCHANGED <<messages, input, selectedImage, apiKey, clock, events>>

\* lines 154-167: sendMessageStream rejects or the stream throws; catch, finally
StreamFail(k) ==
    /\ sends' = Returned(sends, k)
    /\ messages' = CatchMessages(messages, clock)
    /\ isLoading' = Finally(isLoading)
    /\ lastOp' = "streamFail"
    /\ UNCHANGED <<input, selectedImage, apiKey, clock, events>>

\* lines 170-179
ClearChat ==
    /\ events < MaxEvents
    /\ events' = events + 1
    /\ messages' = ClearedMessages(clock)
    /\ sends' = SuspendedAfterClear(sends)
    /\ lastOp' = "clearChat"
    /\ UNCHANGED <<input, isLoading, selectedImage, apiKey, clock>>

StreamStep ==
    \E k \in DOMAIN sends :
        StreamOpen(k) \/ StreamChunk(k) \/ StreamEnd(k) \/ StreamFail(k)

Next ==
    \/ SetInput
    \/ HandleImageSelect
    \/ RemoveImage
    \/ Tick
    \/ HandleSend
    \/ ClearChat
    \/ StreamStep

Spec == Init /\ [][Next]_vars

\* The event loop runs every continuation that is ready, and a stream is
\* finite: it delivers its next chunk, ends or fails.
FairSpec == Spec /\ WF_vars(StreamStep)

\* -------------------------------------------------------------- properties
SendOps == {"sendIgnored", "sendAccepted", "sendFailed"}

C2_EmptySendIsNoOp ==
    [][(lastOp' \in SendOps /\ Trim(input) = <<>> /\ selectedImage = None)
          => UNCHANGED <<messages, input, selectedImage, isLoading, sends>>]_vars

\* a handleSend was ignored in Idle with whitespace-only input
C2_Witness ==
    /\ lastOp = "sendIgnored"
    /\ ~isLoading
    /\ input = <<Space>>
    /\ selectedImage = None

\* the texts of the chunks, in arrival order
RECURSIVE ConcatTexts(_)
ConcatTexts(cs) ==
    IF cs = <<>> THEN <<>>
    ELSE (IF Head(cs).text = None THEN <<>> ELSE Head(cs).text[1]) \o ConcatTexts(Tail(cs))

ReportsWeb(c) ==
    /\ c.groundingChunks # None
    /\ \E i \in 1..Len(c.groundingChunks[1]) : c.groundingChunks[1][i] # None

\* C3: when a stream that delivered chunks c1..cn (n >= 1) ends without
\* error and no clearChat ran since the send was accepted, the transcript
\* is the one at acceptance plus two messages, the user message and one
\* assistant message whose content is the concatenation of the chunk texts
\* in arrival order and whose sources are absent if no chunk reported a web
\* source.
C3_SuccessfulStream ==
    [][\A k \in DOMAIN sends :
          ( /\ lastOp' = "streamEnd"
            /\ sends' = Returned(sends, k)
            /\ ~sends[k].cleared
            /\ Len(sends[k].chunks) >= 1 )
          => /\ Len(messages') = sends[k].baseLen + 2
             /\ messages'[sends[k].baseLen + 1] = sends[k].userMessage
             /\ messages'[sends[k].baseLen + 1].role = "user"
             /\ LET m == messages'[sends[k].baseLen + 2]
                IN  /\ m.role = "bot"
                    /\ m.id = sends[k].botMessageId
                    /\ m.content = ConcatTexts(sends[k].chunks)
                    /\ ((\A i \in 1..Len(sends[k].chunks) : ~ReportsWeb(sends[k].chunks[i]))
                          => m.sources = None)]_vars

\* a stream that delivered "a" twice, no web source, has ended
C3_Witness ==
    /\ lastOp = "streamEnd"
    /\ Len(messages) = 3
    /\ messages[2].role = "user"
    /\ messages[3].content = <<"a", "a">>
    /\ messages[3].sources = None

\* C4: isLoading is false whenever no send is in flight, and whenever it is
\* true it is eventually false again (the stream being finite, the send ends
\* by exhaustion or by failure and the finally block clears the flag).
C4_LoadingCleared ==
    /\ [](sends = <<>> => ~isLoading)
    /\ (isLoading ~> ~isLoading)

\* a send that set isLoading has failed and the flag is cleared
C4_Witness ==
    /\ lastOp = "streamFail"
    /\ Len(messages) >= 4
    /\ sends = <<>>
    /\ ~isLoading

\* C5: an accepted send with the API key missing appends the user message
\* and one assistant message with the fallback error text, and nothing
\* else: no empty placeholder, no stream, isLoading false afterwards and the
\* last message non-empty.
C5_MissingKey ==
    [][(lastOp' \in {"sendAccepted", "sendFailed"} /\ ~apiKey)
          => /\ Len(messages') = Len(messages) + 2
             /\ SubSeq(messages', 1, Len(messages)) = messages
             /\ LET u == messages'[Len(messages) + 1]
                    e == messages'[Len(messages) + 2]
                IN  /\ u.role = "user"
                    /\ u.content # <<>>
                    /\ e.role = "bot"
                    /\ e.content = ErrorText
                    /\ e.sources = None
             /\ sends' = sends
             /\ ~isLoading'
             /\ messages'[Len(messages')].content # <<>>]_vars

\* a send was accepted without a key
C5_Witness ==
    /\ lastOp = "sendFailed"
    /\ ~apiKey
    /\ Len(messages) = 3
    /\ messages[2].role = "user"
    /\ messages[3].content = ErrorText

\* C6: when the stream fails to open or fails at a chunk, no clearChat
\* having run since the send was accepted, one assistant message with the
\* fallback error text is appended after the placeholder; the transcript is
\* then the one at acceptance plus user message, placeholder and error
\* message; the placeholder keeps the content and sources of the last
\* processed chunk; and no stream stays open to deliver a further chunk.
C6_StreamFailure ==
    [][\A k \in DOMAIN sends :
          ( /\ lastOp' = "streamFail"
            /\ sends' = Returned(sends, k)
            /\ ~sends[k].cleared )
          => LET n == sends[k].baseLen
             IN  /\ Len(messages) = n + 2
                 /\ Len(messages') = n + 3
                 /\ SubSeq(messages', 1, n + 2) = messages
                 /\ messages'[n + 1] = sends[k].userMessage
                 /\ messages'[n + 2].id = sends[k].botMessageId
                 /\ messages'[n + 2].role = "bot"
                 /\ messages'[n + 2].content = ConcatTexts(sends[k].chunks)
                 /\ messages'[n + 3].role = "bot"
                 /\ messages'[n + 3].content = ErrorText
                 /\ messages'[n + 3].sources = None
                 /\ sends' = <<>>]_vars

\* a stream failed after its chunk "a": user message, placeholder, error
C6_Witness ==
    /\ lastOp = "streamFail"
    /\ Len(messages) = 4
    /\ messages[2].role = "user"
    /\ messages[3].content = <<"a">>
    /\ messages[4].content = ErrorText

\* C7: clearChat leaves exactly one message, the assistant's 'Chat cleared'
\* greeting without image or sources, and no other step removes a message:
\* it keeps every message in its position and may only append.
C7_ClearChat ==
    [][/\ lastOp' = "clearChat"
          => /\ Len(messages') = 1
             /\ messages'[1].role = "bot"
             /\ messages'[1].content = ClearedText
             /\ messages'[1].image = None
             /\ messages'[1].sources = None
       /\ lastOp' # "clearChat"
          => /\ Len(messages') >= Len(messages)
             /\ \A i \in 1..Len(messages) : messages'[i].id = messages[i].id]_vars

\* clearChat ran on a transcript while a stream was open
C7_Witness ==
    /\ lastOp = "clearChat"
    /\ isLoading
    /\ Len(sends) = 1
    /\ sends[1].phase = "streaming"
    /\ Len(sends[1].chunks) >= 1
    /\ Len(messages) = 1

\* all web records the chunks report, in arrival order
RECURSIVE ReportedWebs(_)
ReportedWebs(cs) ==
    IF cs = <<>> THEN <<>>
    ELSE (IF Head(cs).groundingChunks = None THEN <<>>
          ELSE SelectSeq(Head(cs).groundingChunks[1], LAMBDA e : e # None))
         \o ReportedWebs(Tail(cs))

\* the first report of every uri, in first-seen order
RECURSIVE FirstSeen(_)
FirstSeen(ws) ==
    IF ws = <<>> THEN <<>>
    ELSE LET before == FirstSeen(SubSeq(ws, 1, Len(ws) - 1))
             last == ws[Len(ws)][1]
         IN  IF \E i \in 1..Len(before) : before[i].uri = last.uri
             THEN before
             ELSE Append(before, last)

\* C8: every message's sources list has pairwise distinct uris, and the
\* placeholder of a send in flight (not cleared) carries, for every uri its
\* chunks reported so far, the first report of it, in first-seen order
\* (no sources field when nothing was reported).
C8_SourcesDeduplicated ==
    /\ \A i \in 1..Len(messages) :
          messages[i].sources # None
            => \A p, q \in 1..Len(messages[i].sources[1]) :
                  p # q => messages[i].sources[1][p].uri # messages[i].sources[1][q].uri
    /\ \A k \in DOMAIN sends :
          ~sends[k].cleared
            => LET m == messages[sends[k].baseLen + 2]
                   expected == FirstSeen(ReportedWebs(sends[k].chunks))
               IN  m.sources = IF expected = <<>> THEN None ELSE Some(expected)

\* u1 was reported with title t1, then again with t2 along with u2
C8_Witness ==
    /\ Len(sends) = 1
    /\ ~sends[1].cleared
    /\ Len(sends[1].chunks) = 2
    /\ messages[Len(messages)].sources =
          Some(<< [uri |-> "u1", title |-> "t1"], [uri |-> "u2", title |-> "t1"] >>)

\* C9: no two messages of the transcript have the same id.
C9_UniqueIds ==
    \A i, j \in 1..Len(messages) :
        i # j => messages[i].id # messages[j].id

\* C10: a chunk update changes only the content and sources of the
\* placeholder of its own send: length and order of the transcript are
\* kept, every message other than that placeholder keeps all its fields
\* (the greeting of a clearChat issued while the stream was open included),
\* and nothing changes once the placeholder was cleared away.
C10_ChunkUpdatesOwnPlaceholder ==
    [][\A k \in DOMAIN sends :
          ( /\ lastOp' = "streamChunk"
            /\ sends'[k].chunks # sends[k].chunks )
          => /\ Len(messages') = Len(messages)
             /\ IF sends[k].cleared
                THEN messages' = messages
                ELSE \A i \in 1..Len(messages) :
                        IF i = sends[k].baseLen + 2
                        THEN /\ messages'[i].id = messages[i].id
                             /\ messages'[i].role = messages[i].role
                             /\ messages'[i].timestamp = messages[i].timestamp
                             /\ messages'[i].image = messages[i].image
                        ELSE messages'[i] = messages[i]]_vars

IsPrefix(a, b) ==
    Len(a) <= Len(b) /\ SubSeq(b, 1, Len(a)) = a

\* the list behind an optional sources field
SourcesOf(m) ==
    IF m.sources = None THEN <<>> ELSE m.sources[1]

\* a placeholder is the one assistant message whose id is its creation time
\* plus one (lines 104-112)
IsPlaceholder(m) ==
    m.role = "bot" /\ m.id = ToString(m.timestamp + 1)

\* the transcript position of the placeholder a suspended send is extending
Streaming(i) ==
    \E k \in DOMAIN sends : ~sends[k].cleared /\ sends[k].baseLen + 2 = i

\* C11: the placeholder starts with empty content; each chunk update leaves
\* a content and a sources list of which the previous ones are prefixes;
\* and once its stream has ended or failed, a placeholder's content and
\* sources stay as they are in every step other than clearChat.
C11_PlaceholderOnlyGrows ==
    [][/\ lastOp' = "sendAccepted"
          => /\ messages'[Len(messages')].content = <<>>
             /\ messages'[Len(messages')].sources = None
       /\ \A i \in 1..Len(messages) :
            (IsPlaceholder(messages[i]) /\ lastOp' # "clearChat")
              => IF Streaming(i)
                 THEN /\ IsPrefix(messages[i].content, messages'[i].content)
                      /\ IsPrefix(SourcesOf(messages[i]), SourcesOf(messages'[i]))
                 ELSE /\ messages'[i].content = messages[i].content
                      /\ messages'[i].sources = messages[i].sources]_vars

\* C12: the history of an accepted send is the transcript as it was before
\* this turn's user message was appended, turn by turn: same length and
\* order, role 'model' for an assistant message and 'user' otherwise, the
\* text part last and equal to the content, an image part before it exactly
\* when the message has an image.  The user message of this turn is not in
\* it; its content is the text part of the streaming request.
C12_HistoryIsPriorTranscript ==
    [][lastOp' = "sendAccepted"
          => LET r == sends'[Len(sends')]
                 h == r.history
             IN  /\ Len(h) = Len(messages)
                 /\ Len(messages') = Len(messages) + 2
                 /\ \A i \in 1..Len(messages) :
                      LET ps == h[i].parts
                      IN  /\ h[i].role = (IF messages[i].role = "bot" THEN "model" ELSE "user")
                          /\ ps[Len(ps)].kind = "text"
                          /\ ps[Len(ps)].text = messages[i].content
                          /\ Len(ps) = (IF messages[i].image = None THEN 1 ELSE 2)
                          /\ Len(ps) = 2 => ps[1].kind = "inlineData"
                 /\ LET ps == r.messageParts
                    IN  /\ ps[Len(ps)].kind = "text"
                        /\ ps[Len(ps)].text = messages'[Len(messages) + 1].content
                        /\ Len(ps) = (IF messages'[Len(messages) + 1].image = None THEN 1 ELSE 2)
                        /\ Len(ps) = 2 => ps[1].kind = "inlineData"]_vars

\* a second send whose history holds an earlier turn with an image
C12_Witness ==
    /\ lastOp = "sendAccepted"
    /\ Len(sends) = 1
    /\ Len(sends[1].history) >= 3
    /\ \E i \in 1..Len(sends[1].history) :
          /\ sends[1].history[i].role = "user"
          /\ Len(sends[1].history[i].parts) = 2
          /\ sends[1].history[i].parts[1].data = Some(<<"A">>)
    /\ \E i \in 1..Len(sends[1].history) : sends[1].history[i].role = "model"

Ids(msgs) ==
    [i \in DOMAIN msgs |-> msgs[i].id]

\* C13: in every step other than clearChat the sequence of message ids
\* before the step is a prefix of the one after it.
C13_AppendOnly ==
    [][lastOp' # "clearChat" => IsPrefix(Ids(messages), Ids(messages'))]_vars

\* a second send was appended to a transcript holding a failed turn
C13_Witness ==
    /\ lastOp = "sendAccepted"
    /\ Len(messages) >= 6
    /\ \E i \in 1..Len(messages) : messages[i].content = ErrorText

StreamOps == {"streamOpen", "streamChunk", "streamEnd", "streamFail"}

\* C14: right after a send is accepted the input is empty and no image is
\* selected, and no later step of the send (stream open, chunk, end,
\* failure with its cleanup) changes the input or the selected image.
C14_PendingInput ==
    [][/\ lastOp' \in {"sendAccepted", "sendFailed"}
          => (input' = <<>> /\ selectedImage' = None)
       /\ lastOp' \in StreamOps
          => UNCHANGED <<input, selectedImage>>]_vars

\* text typed and an image picked while Sending are there back in Idle
C14_Witness ==
    /\ lastOp = "streamEnd"
    /\ ~isLoading
    /\ Trim(input) # <<>>
    /\ selectedImage # None

\* C15: the user message of an accepted send carries the selected image (or
\* none) and, as content, the trimmed text if that is non-empty and else
\* 'Analyze this image'; the text part sent to the model is that content.
C15_UserMessageContent ==
    [][lastOp' \in {"sendAccepted", "sendFailed"}
          => LET u == messages'[Len(messages) + 1]
             IN  /\ u.role = "user"
                 /\ u.image = selectedImage
                 /\ Trim(input) # <<>> => u.content = Trim(input)
                 /\ Trim(input) = <<>> => (u.content = AnalyzeText /\ u.image # None)
                 /\ lastOp' = "sendAccepted"
                      => LET ps == sends'[Len(sends')].messageParts
                         IN  ps[Len(ps)] = [kind |-> "text", text |-> u.content]]_vars

\* an image-only send: default content, image attached
C15_Witness ==
    /\ lastOp = "sendAccepted"
    /\ messages[Len(messages) - 1].role = "user"
    /\ messages[Len(messages) - 1].content = AnalyzeText
    /\ messages[Len(messages) - 1].image # None

\* C16: no state shows a user message as the last message: with a session
\* created, user message and empty placeholder are appended in one step,
\* the stream not yet open; and while a send is in flight that was not
\* cleared and has received no text, isLoading is true and the last message
\* is its placeholder, still empty.
C16_PlaceholderWithUserMessage ==
    /\ [](messages[Len(messages)].role # "user")
    /\ [](\A k \in DOMAIN sends :
            (~sends[k].cleared /\ ConcatTexts(sends[k].chunks) = <<>>)
              => /\ isLoading
                 /\ Len(messages) = sends[k].baseLen + 2
                 /\ messages[Len(messages) - 1] = sends[k].userMessage
                 /\ messages[Len(messages)].id = sends[k].botMessageId
                 /\ messages[Len(messages)].role = "bot"
                 /\ messages[Len(messages)].content = <<>>)
    /\ [][lastOp' = "sendAccepted"
            => /\ Len(messages') = Len(messages) + 2
               /\ messages'[Len(messages) + 1].role = "user"
               /\ messages'[Len(messages) + 2].content = <<>>
               /\ sends'[Len(sends')].phase = "opening"]_vars

\* the stream is open, a chunk without text arrived: still thinking
C16_Witness ==
    /\ Len(sends) = 1
    /\ sends[1].phase = "streaming"
    /\ Len(sends[1].chunks) = 1
    /\ ~sends[1].cleared
    /\ isLoading
    /\ messages[Len(messages)].content = <<>>

Suspended(r) ==
    [phase |-> r.phase, botMessageId |-> r.botMessageId,
     fullResponse |-> r.fullResponse, sources |-> r.sources, chunks |-> r.chunks]

\* C17: clearChat changes the transcript only: isLoading, input, selected
\* image and every suspended send (its phase and accumulated response)
\* stay; while a send is suspended every handleSend is ignored; isLoading
\* turns false only at a stream end or failure; and a failure after the
\* clear appends the fallback error message to the cleared transcript.
C17_ClearDoesNotCancel ==
    [][/\ lastOp' = "clearChat"
          => /\ UNCHANGED <<isLoading, input, selectedImage>>
             /\ Len(sends') = Len(sends)
             /\ \A k \in DOMAIN sends : Suspended(sends'[k]) = Suspended(sends[k])
       /\ (lastOp' \in SendOps /\ sends # <<>>)
          => lastOp' = "sendIgnored"
       /\ (isLoading /\ ~isLoading')
          => lastOp' \in {"streamEnd", "streamFail"}
       /\ \A k \in DOMAIN sends :
            (lastOp' = "streamFail" /\ sends[k].cleared)
              => /\ Len(messages') = Len(messages) + 1
                 /\ SubSeq(messages', 1, Len(messages)) = messages
                 /\ messages'[Len(messages')].content = ErrorText
                 /\ ~isLoading']_vars

\* a stream failed after clearChat: greeting, then the error message
C17_Witness ==
    /\ lastOp = "streamFail"
    /\ Len(messages) = 2
    /\ messages[1].content = ClearedText
    /\ messages[2].content = ErrorText
    /\ ~isLoading

\* C18: the transcript holds at least one message in every reachable state.
C18_TranscriptNeverEmpty ==
    Len(messages) >= 1

\* clearChat ran in Idle after at least two other events
C18_Witness ==
    /\ lastOp = "clearChat"
    /\ ~isLoading
    /\ sends = <<>>
    /\ Len(messages) = 1
    /\ events >= 3

====
